---- MODULE Spec2Model ----
(***************************************************************************)
(* A model of src/train.py of torch-fastText: the train() pipeline (split,  *)
(* tokenizer construction, datasets, vocabulary sizes, model construction,  *)
(* data-loader workers and forward passes) together with the n-gram hashing *)
(* tokenizer and the embedding-averaging model it drives.                   *)
(*                                                                         *)
(* Text is a sequence of character codes (ASCII): 97 = a, 98 = b,           *)
(* 32 = space, 60 = "<", 62 = ">".                                          *)
(***************************************************************************)
EXTENDS Integers, Sequences, FiniteSets, Bags

\* ------------------------------------------------------------------ bounds
MaxRows == 3        \* rows of the dataframe
MaxPad  == 2        \* padding positions a batch adds to one sample

\* ------------------------------------------------------------ small helpers
Min(a, b) == IF a <= b THEN a ELSE b

Max(a, b) == IF a >= b THEN a ELSE b

Range(s) == {s[i] : i \in 1..Len(s)}

RECURSIVE Flatten(_)
Flatten(ss) == IF ss = <<>> THEN <<>> ELSE Head(ss) \o Flatten(Tail(ss))

RECURSIVE SumSeq(_)
SumSeq(s) == IF s = <<>> THEN 0 ELSE Head(s) + SumSeq(Tail(s))

RemoveAt(s, i) == SubSeq(s, 1, i - 1) \o SubSeq(s, i + 1, Len(s))

Shuffles(n) == {p \in [1..n -> 1..n] : \A i, j \in 1..n : p[i] = p[j] => i = j}

\* ---------------------------------------------------------------- tokenizer
\* Whitespace-delimited words of a string; empty pieces are dropped.
RECURSIVE SplitFrom(_, _, _)
SplitFrom(s, i, cur) ==
    IF i > Len(s) THEN (IF cur = <<>> THEN <<>> ELSE <<cur>>)
    ELSE IF s[i] = 32
         THEN (IF cur = <<>> THEN <<>> ELSE <<cur>>) \o SplitFrom(s, i + 1, <<>>)
         ELSE SplitFrom(s, i + 1, Append(cur, s[i]))

Split(s) == SplitFrom(s, 1, <<>>)

\* Bitwise exclusive or of two naturals.
RECURSIVE Xor(_, _)
Xor(a, b) ==
    IF a = 0 THEN b
    ELSE IF b = 0 THEN a
    ELSE ((a + b) % 2) + 2 * Xor(a \div 2, b \div 2)

\* The 32-bit FNV-1a hash, kept as two 16-bit halves <<high, low>>:
\* h := (h XOR c) * 16777619 mod 2^32, with 16777619 = 2^24 + 403.
FnvStep(h, c) ==
    LET lo == (h[2] \div 256) * 256 + Xor(h[2] % 256, c)
        p  == lo * 403
    IN  << (h[1] * 403 + (p \div 65536) + (lo % 256) * 256) % 65536, p % 65536 >>

RECURSIVE FnvFrom(_, _, _)
FnvFrom(s, i, h) == IF i > Len(s) THEN h ELSE FnvFrom(s, i + 1, FnvStep(h, s[i]))

\* offset basis 2166136261 = 33052 * 2^16 + 40389
Fnv1a(s) == FnvFrom(s, 1, <<33052, 40389>>)

\* The hash reduced modulo the number of buckets.
Bucket(s, buckets) ==
    LET h == Fnv1a(s)
    IN  (((((h[1] * 256) % buckets) * 256) % buckets) + h[2]) % buckets

\* Word frequencies as a list of <<word, count>> in first-seen order.
Incr(counts, w, k) ==
    IF \E i \in 1..Len(counts) : counts[i][1] = w
    THEN [i \in 1..Len(counts) |->
            IF counts[i][1] = w THEN <<w, counts[i][2] + k>> ELSE counts[i]]
    ELSE Append(counts, <<w, k>>)

RECURSIVE CountFrom(_, _, _)
CountFrom(words, i, counts) ==
    IF i > Len(words) THEN counts
    ELSE CountFrom(words, i + 1, Incr(counts, words[i], 1))

CorpusWords(corpus) == Flatten([i \in 1..Len(corpus) |-> Split(corpus[i])])

CountWords(corpus) == CountFrom(CorpusWords(corpus), 1, <<>>)

\* Frequency counts of two parts of a corpus merged, c2 into c1.
RECURSIVE MergeCounts(_, _)
MergeCounts(c1, c2) ==
    IF c2 = <<>> THEN c1
    ELSE MergeCounts(Incr(c1, Head(c2)[1], Head(c2)[2]), Tail(c2))

LexLess(a, b) ==
    \E i \in 1..(Min(Len(a), Len(b)) + 1) :
        /\ \A j \in 1..(i - 1) : a[j] = b[j]
        /\ \/ i > Len(a) /\ i <= Len(b)
           \/ i <= Len(a) /\ i <= Len(b) /\ a[i] < b[i]

\* The tie-break that ignores the word and keeps the arrival order.
BeforeByArrival(x, y) == x[2] > y[2]

\* The order of the dense ids: descending frequency, then the word itself.
Before(x, y) == x[2] > y[2] \/ (x[2] = y[2] /\ LexLess(x[1], y[1]))

RECURSIVE SortCounts(_)
SortCounts(cs) ==
    IF cs = <<>> THEN <<>>
    ELSE LET first == CHOOSE i \in 1..Len(cs) :
                        /\ \A j \in 1..Len(cs) : ~Before(cs[j], cs[i])
                        /\ \A j \in 1..(i - 1) : Before(cs[j], cs[i]) \/ Before(cs[i], cs[j])
         IN  <<cs[first]>> \o SortCounts(RemoveAt(cs, first))

\* The vocabulary: the words meeting min_count, the word of id k at index k + 1.
AssignIds(counts, min_count) ==
    LET kept == SelectSeq(counts, LAMBDA c : c[2] >= min_count)
        ord  == SortCounts(kept)
    IN  [i \in 1..Len(ord) |-> ord[i][1]]

InvalidParams(min_n, max_n, buckets, word_ngrams) ==
    min_n > max_n \/ buckets <= 0 \/ word_ngrams < 1

NGramTokenizer(min_count, min_n, max_n, buckets, word_ngrams, training_text) ==
    IF InvalidParams(min_n, max_n, buckets, word_ngrams)
    THEN [error |-> "InvalidConfiguration"]
    ELSE LET vocab == AssignIds(CountWords(training_text), min_count)
         IN  [error |-> "none", word_id_mapping |-> vocab, nwords |-> Len(vocab),
              min_n |-> min_n, max_n |-> max_n, buckets |-> buckets,
              word_ngrams |-> word_ngrams]

get_nwords(tok) == tok.nwords

get_buckets(tok) == tok.buckets

padding_id(tok) == tok.buckets + tok.nwords

HashId(tok, s) == tok.nwords + Bucket(s, tok.buckets)

InVocab(tok, w) == \E i \in 1..Len(tok.word_id_mapping) : tok.word_id_mapping[i] = w

WordId(tok, w) ==
    IF InVocab(tok, w)
    THEN (CHOOSE i \in 1..Len(tok.word_id_mapping) : tok.word_id_mapping[i] = w) - 1
    ELSE HashId(tok, w)

\* The character n-grams of <w>, by start position, then by length.
CharNgrams(tok, w) ==
    LET m == <<60>> \o w \o <<62>>
    IN  Flatten([i \in 1..Len(m) |->
            Flatten([d \in 1..Max(0, tok.max_n - tok.min_n + 1) |->
                LET n == tok.min_n + d - 1
                IN  IF n >= 1 /\ i + n - 1 <= Len(m)
                    THEN <<SubSeq(m, i, i + n - 1)>> ELSE <<>>])])

\* The ids of one word: the word's own id, then its character n-grams.
EncodeWord(tok, w) ==
    LET grams == CharNgrams(tok, w)
    IN  <<WordId(tok, w)>> \o [k \in 1..Len(grams) |-> HashId(tok, grams[k])]

RECURSIVE JoinWords(_)
JoinWords(ws) ==
    IF Len(ws) = 1 THEN ws[1] ELSE ws[1] \o <<32>> \o JoinWords(Tail(ws))

\* The word n-grams of orders 2..word_ngrams, by order, then by position.
WordNgramStrings(tok, ws) ==
    Flatten([d \in 1..Max(0, tok.word_ngrams - 1) |->
        LET n == d + 1
        IN  [i \in 1..Max(0, Len(ws) - n + 1) |-> JoinWords(SubSeq(ws, i, i + n - 1))]])

WordNgrams(tok, ws) ==
    LET grams == WordNgramStrings(tok, ws)
    IN  [k \in 1..Len(grams) |-> HashId(tok, grams[k])]

Encode(tok, s) ==
    LET ws == Split(s)
    IN  Flatten([i \in 1..Len(ws) |-> EncodeWord(tok, ws[i])]) \o WordNgrams(tok, ws)

\* ------------------------------------------------------------- the program
VARIABLES
    pc,                           \* the statement train() is at
    error,                        \* the exception that ended the run, or "none"
    params,                       \* train()'s params dictionary
    df,                           \* the dataframe: rows [text, cat, y]
    categorical_features,         \* a list of column names, or None
    encoder,                      \* the module global `encoder`
    X_train, X_val,               \* the two splits (y_train, y_val are the y fields)
    tokenizer,
    train_dataset, val_dataset,
    num_classes,
    categorical_vocabulary_sizes,
    model,
    worker,                       \* the samples the data-loader workers hold
    out                           \* the last forward pass

vars == <<pc, error, params, df, categorical_features, encoder, X_train, X_val,
          tokenizer, train_dataset, val_dataset, num_classes,
          categorical_vocabulary_sizes, model, worker, out>>

None == "None"

\* An object variable before its constructor has run.
Unset == [unset |-> TRUE]

Columns == <<"EVT", "CJ">>

Workers == {"w1", "w2"}

\* -- the inputs train() is called with
Texts == { <<>>, <<98>>, <<97, 32, 98>> }

Codes == 0..1

RawLabels == {0, 2}

FeatureLists == {None, <<>>, <<"EVT">>, <<"EVT", "CJ">>}

ParamsOf(mc, mn, mx, b, wn) ==
    [minCount |-> mc, minn |-> mn, maxn |-> mx, buckets |-> b, wordNgrams |-> wn,
     train_proportion |-> 8]

\* Valid and invalid tokenizer configurations.
ParamChoices ==
    { ParamsOf(1, 1, 2, 2, 2), ParamsOf(2, 2, 3, 3, 1),
      ParamsOf(1, 3, 2, 3, 2), ParamsOf(1, 1, 2, 0, 2), ParamsOf(1, 1, 2, 3, 0) }

RowLeq(r, s) ==
    \/ r = s
    \/ LexLess(r.text, s.text)
    \/ r.text = s.text /\ r.y < s.y
    \/ r.text = s.text /\ r.y = s.y
         /\ \E i \in 1..Len(Columns) :
               /\ \A j \in 1..(i - 1) : r.cat[Columns[j]] = s.cat[Columns[j]]
               /\ r.cat[Columns[i]] < s.cat[Columns[i]]

\* The dataframes of at most MaxRows rows; train_test_split shuffles the rows,
\* so one order of each collection of rows stands for all of them.
Frames(T, C, L) ==
    LET Rows == [text : T, cat : C, y : L]
    IN  UNION { {d \in [1..n -> Rows] : \A i \in 1..(n - 1) : RowLeq(d[i], d[i + 1])}
                : n \in 1..MaxRows }

InitOver(P, T, C, L, F) ==
    /\ pc = "main"
    /\ error = "none"
    /\ params \in P
    /\ df \in Frames(T, C, L)
    /\ categorical_features \in F
    /\ encoder = "undefined"
    /\ X_train = <<>>
    /\ X_val = <<>>
    /\ tokenizer = Unset
    /\ train_dataset = Unset
    /\ val_dataset = Unset
    /\ num_classes = None
    /\ categorical_vocabulary_sizes = None
    /\ model = Unset
    /\ worker = EmptyBag
    /\ out = Unset

Raise(e) == pc' = "error" /\ error' = e

\* -- __main__: the label column is encoded, then train() is called
LabelEncoderFitTransform(ys) ==
    LET classes == Range(ys)
    IN  [i \in 1..Len(ys) |-> Cardinality({c \in classes : c < ys[i]})]

EncodeClasses ==
    /\ pc = "main"
    /\ encoder' = "LabelEncoder"
    /\ df' = LET enc == LabelEncoderFitTransform([i \in 1..Len(df) |-> df[i].y])
             IN  [i \in 1..Len(df) |-> [df[i] EXCEPT !.y = enc[i]]]
    /\ pc' = "split"
    /\ UNCHANGED <<error, params, categorical_features, X_train, X_val, tokenizer,
                   train_dataset, val_dataset, num_classes,
                   categorical_vocabulary_sizes, model, worker, out>>

\* train() called by an importing module: no global `encoder`, labels as given.
CallTrain ==
    /\ pc = "main"
    /\ pc' = "split"
    /\ UNCHANGED <<error, params, df, categorical_features, encoder, X_train, X_val,
                   tokenizer, train_dataset, val_dataset, num_classes,
                   categorical_vocabulary_sizes, model, worker, out>>

\* -- train(): the train/validation split
Features(cf) == IF cf = None THEN <<>> ELSE cf

\* df[features]: the row restricted to the text, the chosen columns and the label.
SelectColumns(row, cf) ==
    [text |-> row.text, cat |-> [c \in Range(Features(cf)) |-> row.cat[c]], y |-> row.y]

\* ceil(test_size * n) with test_size = 1 - train_proportion, in tenths.
NTest(n, train_proportion) == ((10 - train_proportion) * n + 9) \div 10

TrainTestSplit ==
    /\ pc = "split"
    /\ LET n == Len(df)
           ntest == NTest(n, params.train_proportion)
           ntrain == n - ntest
       IN  IF ntrain <= 0
           THEN /\ Raise("ValueError")
                /\ UNCHANGED <<X_train, X_val>>
           ELSE \E p \in Shuffles(n) :
                  /\ X_train' = [i \in 1..ntrain |->
                                    SelectColumns(df[p[i]], categorical_features)]
                  /\ X_val' = [i \in 1..ntest |->
                                    SelectColumns(df[p[ntrain + i]], categorical_features)]
                  /\ pc' = "tokenizer"
                  /\ error' = error
    /\ UNCHANGED <<params, df, categorical_features, encoder, tokenizer, train_dataset,
                   val_dataset, num_classes, categorical_vocabulary_sizes, model,
                   worker, out>>

\* -- train(): the tokenizer, built from the training split's text
TrainingText(Xt) == [i \in 1..Len(Xt) |-> Xt[i].text]

\* The call with minCount and wordNgrams in each other's place.
TokenizerArgsCountSwapped(p) == <<p.wordNgrams, p.minn, p.maxn, p.buckets, p.minCount>>

\* The call with minn and maxn in each other's place.
TokenizerArgsBoundsSwapped(p) == <<p.minCount, p.maxn, p.minn, p.buckets, p.wordNgrams>>

\* The arguments train() hands to NGramTokenizer, in the constructor's order.
TokenizerArgs(p) == <<p.minCount, p.minn, p.maxn, p.buckets, p.wordNgrams>>

BuildTokenizer ==
    /\ pc = "tokenizer"
    /\ LET a == TokenizerArgs(params)
           t == NGramTokenizer(a[1], a[2], a[3], a[4], a[5], TrainingText(X_train))
       IN  IF t.error # "none"
           THEN Raise(t.error) /\ UNCHANGED tokenizer
           ELSE tokenizer' = t /\ pc' = "datasets" /\ error' = error
    /\ UNCHANGED <<params, df, categorical_features, encoder, X_train, X_val,
                   train_dataset, val_dataset, num_classes,
                   categorical_vocabulary_sizes, model, worker, out>>

\* -- train(): the two datasets, sharing the one tokenizer
FastTextModelDataset(categorical_variables, texts, outputs, tok) ==
    [categorical_variables |-> categorical_variables, texts |-> texts,
     outputs |-> outputs, tokenizer |-> tok]

CategoricalVariables(X, cf) ==
    [i \in 1..Len(cf) |-> [r \in 1..Len(X) |-> X[r].cat[cf[i]]]]

TrainDataset(Xt, cf, tok) ==
    FastTextModelDataset(CategoricalVariables(Xt, cf), TrainingText(Xt),
                         [r \in 1..Len(Xt) |-> Xt[r].y], tok)

\* The validation dataset given a tokenizer fitted on the validation text.
ValDatasetOwnTokenizer(Xv, cf, tok) ==
    FastTextModelDataset(CategoricalVariables(Xv, cf), TrainingText(Xv),
                         [r \in 1..Len(Xv) |-> Xv[r].y],
                         NGramTokenizer(1, tok.min_n, tok.max_n, tok.buckets,
                                        tok.word_ngrams, TrainingText(Xv)))

ValDataset(Xv, cf, tok) ==
    FastTextModelDataset(CategoricalVariables(Xv, cf), TrainingText(Xv),
                         [r \in 1..Len(Xv) |-> Xv[r].y], tok)

BuildDatasets ==
    /\ pc = "datasets"
    /\ IF categorical_features = None
       THEN \* X_train[None] is no column of the frame
            Raise("KeyError") /\ UNCHANGED <<train_dataset, val_dataset>>
       ELSE /\ train_dataset' = TrainDataset(X_train, categorical_features, tokenizer)
            /\ val_dataset' = ValDataset(X_val, categorical_features, tokenizer)
            /\ pc' = "sizes"
            /\ error' = error
    /\ UNCHANGED <<params, df, categorical_features, encoder, X_train, X_val, tokenizer,
                   num_classes, categorical_vocabulary_sizes, model, worker, out>>

\* -- train(): num_classes and categorical_vocabulary_sizes
SetMax(S) == CHOOSE x \in S : \A y \in S : y <= x

\* The class count taken over the training split alone.
NumClassesOfTrainSplit(d) == Cardinality({X_train[i].y : i \in 1..Len(X_train)})

NumClasses(d) == Cardinality({d[i].y : i \in 1..Len(d)})

CategoricalVocabularySize(Xt, feature) ==
    SetMax({Xt[r].cat[feature] : r \in 1..Len(Xt)})

ComputeSizes ==
    /\ pc = "sizes"
    /\ num_classes' = NumClasses(df)
    /\ IF categorical_features = None
       THEN \* None is not iterable
            Raise("TypeError") /\ UNCHANGED categorical_vocabulary_sizes
       ELSE /\ categorical_vocabulary_sizes' =
                  [i \in 1..Len(categorical_features) |->
                      CategoricalVocabularySize(X_train, categorical_features[i])]
            /\ pc' = "model"
            /\ error' = error
    /\ UNCHANGED <<params, df, categorical_features, encoder, X_train, X_val, tokenizer,
                   train_dataset, val_dataset, model, worker, out>>

\* -- train(): the model
\* The table sized without the dedicated word ids.
VocabSizeNoWords(buckets, tok) == buckets + 1

VocabSize(buckets, tok) == buckets + get_nwords(tok) + 1

\* The padding index without the dedicated word ids.
PaddingIdxNoWords(buckets, tok) == buckets

\* The padding index one past the last row.
PaddingIdxPastEnd(buckets, tok) == buckets + get_nwords(tok) + 1

PaddingIdx(buckets, tok) == buckets + get_nwords(tok)

Seeds == {1}

BuildModel ==
    /\ pc = "model"
    /\ IF encoder = "undefined"
       THEN \* nace_encoder=encoder names a global only __main__ defines
            Raise("NameError") /\ UNCHANGED model
       ELSE \E seed \in Seeds :
              /\ model' = [vocab_size |-> VocabSize(params.buckets, tokenizer),
                           num_classes |-> num_classes,
                           categorical_vocabulary_sizes |-> categorical_vocabulary_sizes,
                           padding_idx |-> PaddingIdx(params.buckets, tokenizer),
                           seed |-> seed]
              /\ pc' = "fit"
              /\ error' = error
    /\ UNCHANGED <<params, df, categorical_features, encoder, X_train, X_val, tokenizer,
                   train_dataset, val_dataset, num_classes,
                   categorical_vocabulary_sizes, worker, out>>

\* -- trainer.fit(): the data-loader workers encode samples one word at a time.
\* The workers are interchangeable processes: `worker` is the bag of the samples
\* being encoded, one [state, ds, row, pos, ids] per busy worker.
Dataset(name) == IF name = "train" THEN train_dataset ELSE val_dataset

SampleText(r) == Dataset(r.ds).texts[r.row]

Replace(bag, r, q) == (bag (-) SetToBag({r})) (+) SetToBag({q})

FitFrame == <<pc, error, params, df, categorical_features, encoder, X_train, X_val,
              tokenizer, train_dataset, val_dataset, num_classes,
              categorical_vocabulary_sizes, model>>

WorkerFetch ==
    /\ pc = "fit"
    /\ BagCardinality(worker) < Cardinality(Workers)
    /\ \E name \in {"train", "val"} :
         \E row \in 1..Len(Dataset(name).texts) :
            worker' = worker (+) SetToBag({[state |-> "encoding", ds |-> name,
                                            row |-> row, pos |-> 0, ids |-> <<>>]})
    /\ UNCHANGED <<FitFrame, out>>

WorkerEncodeWord(r) ==
    /\ pc = "fit"
    /\ r.state = "encoding"
    /\ r.pos < Len(Split(SampleText(r)))
    /\ worker' = Replace(worker, r,
                    [r EXCEPT !.ids = @ \o EncodeWord(Dataset(r.ds).tokenizer,
                                                      Split(SampleText(r))[r.pos + 1]),
                              !.pos = @ + 1])
    /\ UNCHANGED <<FitFrame, out>>

WorkerFinish(r) ==
    /\ pc = "fit"
    /\ r.state = "encoding"
    /\ r.pos = Len(Split(SampleText(r)))
    /\ worker' = Replace(worker, r,
                    [r EXCEPT !.ids = @ \o WordNgrams(Dataset(r.ds).tokenizer,
                                                      Split(SampleText(r))),
                              !.state = "encoded"])
    /\ UNCHANGED <<FitFrame, out>>

\* -- the model's forward pass and the loss on one padded sample
InTable(i, size) == 0 <= i /\ i < size

\* The embedding rows; the padding row is zero.
Weight(m, id) == IF id = m.padding_idx THEN 0 ELSE (((id + m.seed) * (id + 1)) % 5) - 2

\* The mean over the non-padding positions, as a fraction num/den.
TextRepresentation(m, tokens) ==
    LET k == Len(SelectSeq(tokens, LAMBDA t : t # m.padding_idx))
        s == SumSeq([i \in 1..Len(tokens) |-> Weight(m, tokens[i])])
    IN  IF k = 0 THEN [num |-> 0, den |-> 1] ELSE [num |-> s, den |-> k]

ForwardPass(m, tokens, cats, label) ==
    LET textOk == \A i \in 1..Len(tokens) : InTable(tokens[i], m.vocab_size)
        catOk  == \A i \in 1..Len(cats) :
                      InTable(cats[i], m.categorical_vocabulary_sizes[i])
    IN  [lookup |-> IF textOk THEN "ok" ELSE "IndexOutOfRange",
         text |-> IF textOk THEN TextRepresentation(m, tokens) ELSE [num |-> 0, den |-> 0],
         cat  |-> IF ~textOk THEN "skipped"
                  ELSE IF catOk THEN "ok" ELSE "IndexOutOfRange",
         loss |-> IF ~(textOk /\ catOk) THEN "skipped"
                  ELSE IF InTable(label, m.num_classes) THEN "ok" ELSE "InvalidLabel"]

\* The batch pads the sample with the tokenizer's padding id.
Padded(ids, m, tok) == ids \o [i \in 1..m |-> padding_id(tok)]

Forward(r) ==
    /\ pc = "fit"
    /\ r.state = "encoded"
    /\ \E m \in 0..MaxPad :
         LET ds   == Dataset(r.ds)
             cats == [i \in 1..Len(ds.categorical_variables) |->
                         ds.categorical_variables[i][r.row]]
             res  == ForwardPass(model, Padded(r.ids, m, ds.tokenizer), cats,
                                 ds.outputs[r.row])
         IN  /\ out' = [ids |-> r.ids, padded |-> m > 0, label |-> ds.outputs[r.row],
                        lookup |-> res.lookup, text |-> res.text, cat |-> res.cat,
                        loss |-> res.loss]
             /\ IF res.lookup = "IndexOutOfRange" \/ res.cat = "IndexOutOfRange"
                THEN Raise("IndexOutOfRange")
                ELSE IF res.loss = "InvalidLabel"
                     THEN Raise("InvalidLabel")
                     ELSE pc' = pc /\ error' = error
    /\ worker' = worker (-) SetToBag({r})
    /\ UNCHANGED <<params, df, categorical_features, encoder, X_train, X_val, tokenizer,
                   train_dataset, val_dataset, num_classes,
                   categorical_vocabulary_sizes, model>>

FitDone ==
    /\ pc = "fit"
    /\ worker = EmptyBag
    /\ pc' = "done"
    /\ UNCHANGED <<error, params, df, categorical_features, encoder, X_train, X_val,
                   tokenizer, train_dataset, val_dataset, num_classes,
                   categorical_vocabulary_sizes, model, worker, out>>

\* train() up to the construction of the model.
NextBuild ==
    \/ EncodeClasses
    \/ CallTrain
    \/ TrainTestSplit
    \/ BuildTokenizer
    \/ BuildDatasets
    \/ ComputeSizes
    \/ BuildModel

Next ==
    \/ NextBuild
    \/ WorkerFetch
    \/ \E r \in BagToSet(worker) : WorkerEncodeWord(r)
    \/ \E r \in BagToSet(worker) : WorkerFinish(r)
    \/ \E r \in BagToSet(worker) : Forward(r)
    \/ FitDone

\* Tokenizer configurations and texts vary; no categorical feature.
Init ==
    InitOver(ParamChoices, Texts, {[c \in Range(Columns) |-> 1]}, {0}, {<<>>})

Spec == Init /\ [][Next]_vars

\* Tokenizer construction alone, over a corpus with equally frequent words.
InitBuild ==
    InitOver(ParamChoices, Texts \cup {<<97>>}, {[c \in Range(Columns) |-> 1]}, {0},
             {<<>>})

SpecBuild == InitBuild /\ [][NextBuild]_vars

\* Categorical codes, labels and feature lists vary; one tokenizer configuration.
InitData ==
    InitOver({ParamsOf(1, 1, 2, 2, 2)}, {<<97>>},
             {[c \in Range(Columns) |-> IF c = "EVT" THEN k ELSE 1 - k] : k \in Codes},
             RawLabels, FeatureLists)

SpecData == InitData /\ [][Next]_vars

\* ------------------------------------------------------------------ claims
TokenizerBuilt == tokenizer # Unset

ModelBuilt == model # Unset

Busy == BagToSet(worker)

\* C1: every id encode emits lies in [0, buckets + nwords] and is a row of the
\* text embedding table, whose size is the vocab_size train() gives the model.
C1_EmittedIdsInTable ==
    ModelBuilt =>
        \A r \in Busy :
            \A i \in 1..Len(r.ids) :
                /\ 0 <= r.ids[i]
                /\ r.ids[i] <= params.buckets + get_nwords(tokenizer)
                /\ InTable(r.ids[i], model.vocab_size)

C1_Witness ==
    /\ ModelBuilt
    /\ \E r \in Busy :
         /\ r.state = "encoded"
         /\ r.ds = "val"
         /\ \E i \in 1..Len(r.ids) : r.ids[i] = params.buckets + get_nwords(tokenizer) - 1
         /\ \E i \in 1..Len(r.ids) : r.ids[i] < get_nwords(tokenizer)

\* C3: the text representation of a padded sample is the mean of the embeddings
\* of its k non-padding tokens, the zero vector when k = 0, whatever the number
\* m of padding positions, and the division never fails.
C3_MaskedAverage ==
    (out # Unset /\ out.lookup = "ok") =>
        LET k == Len(out.ids)
            S == SumSeq([i \in 1..k |-> Weight(model, out.ids[i])])
        IN  /\ out.text.den # 0
            /\ IF k = 0 THEN out.text.num = 0
                        ELSE out.text.num * k = S * out.text.den

C3_Witness ==
    /\ out # Unset
    /\ out.lookup = "ok"
    /\ out.padded
    /\ Len(out.ids) >= 2
    /\ out.text.num # 0

Occurrences(w, corpus) ==
    LET ws == CorpusWords(corpus)
    IN  Cardinality({i \in 1..Len(ws) : ws[i] = w})

\* C4: the vocabulary maps exactly the words occurring at least min_count times
\* in the training corpus, one to one, onto the ids 0..nwords-1; a rarer word has
\* no dedicated id.
C4_VocabularyIsFrequentWords ==
    TokenizerBuilt =>
        LET corpus == TrainingText(X_train)
            voc    == tokenizer.word_id_mapping
            words  == Range(CorpusWords(corpus))
        IN  /\ get_nwords(tokenizer) = Len(voc)
            /\ \A i, j \in 1..Len(voc) : voc[i] = voc[j] => i = j
            /\ Range(voc) = {w \in words : Occurrences(w, corpus) >= params.minCount}
            /\ {WordId(tokenizer, w) : w \in Range(voc)} = 0..(get_nwords(tokenizer) - 1)
            /\ \A w \in words : Occurrences(w, corpus) < params.minCount =>
                   /\ ~InVocab(tokenizer, w)
                   /\ WordId(tokenizer, w) >= get_nwords(tokenizer)

C4_Witness ==
    /\ TokenizerBuilt
    /\ get_nwords(tokenizer) >= 1
    /\ \E w \in Range(CorpusWords(TrainingText(X_train))) :
          Occurrences(w, TrainingText(X_train)) < params.minCount

HashedFeatures(tok, s) ==
    LET ws == Split(s)
    IN  {ws[i] : i \in {j \in 1..Len(ws) : ~InVocab(tok, ws[j])}}
        \cup UNION {Range(CharNgrams(tok, ws[i])) : i \in 1..Len(ws)}
        \cup Range(WordNgramStrings(tok, ws))

\* C6: every id of a hashed feature lies in [nwords, nwords + buckets): it is no
\* dedicated word id and not the padding id train() gives the model, so encode
\* never emits the padding id.
C6_HashedIdsInBucketRange ==
    ModelBuilt =>
        /\ \A r \in Busy :
             \A id \in {HashId(tokenizer, f) : f \in HashedFeatures(tokenizer, SampleText(r))} :
                /\ get_nwords(tokenizer) <= id
                /\ id < get_nwords(tokenizer) + params.buckets
                /\ id # model.padding_idx
        /\ model.padding_idx = model.vocab_size - 1
        /\ \A r \in Busy : \A i \in 1..Len(r.ids) : r.ids[i] # model.padding_idx

C6_Witness ==
    /\ ModelBuilt
    /\ get_nwords(tokenizer) >= 1
    /\ \E r \in Busy :
         /\ r.state = "encoded"
         /\ \E x \in Range(Split(SampleText(r))) : ~InVocab(tokenizer, x)
         /\ \E i \in 1..Len(r.ids) :
               r.ids[i] = get_nwords(tokenizer) + params.buckets - 1

\* C7: encoding leaves the tokenizer as constructed, both datasets hold that one
\* tokenizer, and every worker's ids, at every point of every interleaving, are
\* those of a sequential encode of its string on the fresh tokenizer.
C7_EncodeHasNoSideEffects ==
    train_dataset # Unset =>
        /\ tokenizer = NGramTokenizer(params.minCount, params.minn, params.maxn,
                                      params.buckets, params.wordNgrams,
                                      TrainingText(X_train))
        /\ train_dataset.tokenizer = tokenizer
        /\ val_dataset.tokenizer = tokenizer
        /\ \A r \in Busy :
             LET ws == Split(SampleText(r))
             IN  IF r.state = "encoding"
                 THEN r.ids = Flatten([i \in 1..r.pos |-> EncodeWord(tokenizer, ws[i])])
                 ELSE r.ids = Encode(tokenizer, SampleText(r))

C7_Witness ==
    \E r1, r2 \in Busy :
        /\ r1.state = "encoded"
        /\ r1.ds = "val"
        /\ Len(r1.ids) >= 1
        /\ r2.state = "encoding"
        /\ r2.ds = "train"
        /\ r2.pos >= 1
        /\ SampleText(r1) = SampleText(r2)

\* C8: with min_n > max_n, buckets <= 0 or word_ngrams < 1 in params, tokenizer
\* construction fails with InvalidConfiguration: no tokenizer, dataset or model
\* is ever produced.
C8_InvalidConfigurationRejected ==
    InvalidParams(params.minn, params.maxn, params.buckets, params.wordNgrams) =>
        /\ tokenizer = Unset
        /\ train_dataset = Unset
        /\ val_dataset = Unset
        /\ model = Unset
        /\ pc \in {"main", "split", "tokenizer", "error"}
        /\ pc = "error" => error \in {"ValueError", "InvalidConfiguration"}
        /\ (pc = "error" /\ X_train # <<>>) => error = "InvalidConfiguration"

C8_Witness ==
    /\ pc = "error"
    /\ error = "InvalidConfiguration"
    /\ params.minn > params.maxn
    /\ params.buckets > 0
    /\ params.wordNgrams >= 1

SizesComputed ==
    \/ pc \in {"model", "fit", "done"}
    \/ pc = "error" /\ error \in {"NameError", "IndexOutOfRange", "InvalidLabel"}

\* C2: every categorical code of the training and the validation split is a row
\* of its feature's embedding table: 0 <= c < categorical_vocabulary_sizes[i].
C2_CategoricalIdsInBounds ==
    SizesComputed =>
        \A i \in 1..Len(categorical_features) :
            /\ \A r \in 1..Len(X_train) :
                  InTable(X_train[r].cat[categorical_features[i]],
                          categorical_vocabulary_sizes[i])
            /\ \A r \in 1..Len(X_val) :
                  InTable(X_val[r].cat[categorical_features[i]],
                          categorical_vocabulary_sizes[i])

\* C9: with the label column encoded over the whole dataframe, every label of
\* both splits lies in [0, num_classes) and the loss never fails with
\* InvalidLabel, whatever the split.
C9_LabelsInRange ==
    (encoder = "LabelEncoder" /\ SizesComputed) =>
        /\ \A r \in 1..Len(X_train) : InTable(X_train[r].y, num_classes)
        /\ \A r \in 1..Len(X_val) : InTable(X_val[r].y, num_classes)
        /\ ModelBuilt => model.num_classes = num_classes
        /\ out # Unset => out.loss # "InvalidLabel"
        /\ error # "InvalidLabel"

\* A validation sample whose class no training sample has went through the loss.
C9_Witness ==
    /\ encoder = "LabelEncoder"
    /\ out # Unset
    /\ out.loss = "ok"
    /\ out.label >= 1
    /\ \A r \in 1..Len(X_train) : X_train[r].y # out.label

\* C10: train() called with categorical_features = None completes dataset
\* construction, the vocabulary sizes and model construction without raising.
C10_NoneFeaturesAccepted ==
    categorical_features = None => ~(pc = "error" /\ error \in {"KeyError", "TypeError"})

====
